---- MODULE Spec2Model ----
(***************************************************************************)
(* Model of zh-export (src/src/main.ts, src/src/utils.ts): the containment *)
(* test on the shared global regex, the AST extractor, the key generator,  *)
(* the directory walker and the catalog aggregator.                        *)
(*                                                                         *)
(* Strings are sequences of UTF-16 code units (integers).  Only BMP        *)
(* characters occur, so a code point is one code unit.                     *)
(***************************************************************************)
EXTENDS Integers, Sequences, FiniteSets, TLC

VARIABLES
  lastIndex,   \* zhReg.lastIndex, the state of the shared /g regex (main.ts:17)
  unit,        \* the script unit handed to the extractor: a sequence of statements
  calls,       \* the extractor calls made so far on `unit`, in order
  keyIn,       \* the string handed to getKeyFromStr
  keyOut,      \* the keys getKeyFromStr returned for keyIn, in order
  root,        \* the root folder being processed (a path string)
  tree,        \* the directory tree under the root
  seen,        \* history: for each file the loop body ran on, what it found
  pathnames,   \* traverseDirectory's stack of pending path names
  yielded,     \* the path names the walker has yielded, in order
  current,     \* the yielded file the aggregator's loop body has still to process
  textList,    \* collectDirZhStr's textList
  report,      \* what collectDirZhStr wrote and logged once it finished
  pc           \* where the run stands

vars == <<lastIndex, unit, calls, keyIn, keyOut, root, tree, seen, pathnames,
          yielded, current, textList, report, pc>>

(***************************************************************************)
(* Characters and strings                                                  *)
(***************************************************************************)
\* The code units the model's texts are written with.
Chr == [quote |-> 34, space |-> 32, plus |-> 43, minus |-> 45, lpar |-> 40,
        rpar |-> 41, semi |-> 59, eq |-> 61, dollar |-> 36, tick |-> 96,
        lbrace |-> 123, rbrace |-> 125, a |-> 97, x |-> 120,
        ni |-> 20320, hao |-> 22909, cheng |-> 31216,
        dot |-> 46, slash |-> 47, backslash |-> 92, under |-> 95]

\* zhReg's character class [一-龥]
IsZh(c) == c >= 19968 /\ c <= 40869

\* One zhReg.test(s) on a one-code-unit string s with the regex's lastIndex at
\* li: a /g regex searches from lastIndex, stores the end of the match on
\* success and resets lastIndex to 0 on failure.
RegTest(c, li) ==
  IF li = 0 /\ IsZh(c) THEN [r |-> TRUE, li |-> 1] ELSE [r |-> FALSE, li |-> 0]

RECURSIVE HasZhFrom(_, _, _)
HasZhFrom(str, i, li) ==
  IF i > Len(str) THEN [r |-> FALSE, li |-> li]
  ELSE LET t == RegTest(str[i], li)
       IN  IF t.r THEN t ELSE HasZhFrom(str, i + 1, t.li)

\* hasZhStr(str) called with zhReg.lastIndex = li: the result and the new lastIndex
HasZhStr(str, li) == HasZhFrom(str, 1, li)

IsSpace(c) == c \in {32, 10, 9}

RECURSIVE TrimStart(_)
TrimStart(s) ==
  IF s # <<>> /\ IsSpace(Head(s)) THEN TrimStart(Tail(s)) ELSE s

RECURSIVE TrimEnd(_)
TrimEnd(s) ==
  IF s # <<>> /\ IsSpace(s[Len(s)]) THEN TrimEnd(SubSeq(s, 1, Len(s) - 1)) ELSE s

\* String.prototype.trim
Trim(s) == TrimEnd(TrimStart(s))

\* the placeholder token '{}'
Placeholder == <<Chr.lbrace, Chr.rbrace>>

StartsWithPh(s) == Len(s) >= 2 /\ SubSeq(s, 1, 2) = Placeholder
EndsWithPh(s) == Len(s) >= 2 /\ SubSeq(s, Len(s) - 1, Len(s)) = Placeholder

\* v.replace(rmREg, '') with rmREg = /(^\{\})|(\{\}$)/ : no g flag, so only the
\* leftmost match is replaced.
RmReplace(s) ==
  IF StartsWithPh(s) THEN SubSeq(s, 3, Len(s))
  ELSE IF EndsWithPh(s) THEN SubSeq(s, 1, Len(s) - 2)
  ELSE s

RECURSIVE JoinWith(_, _)
\* Array.prototype.join(sep) on a list of strings
\* The element of a one-element set.  Only({ F(x) : x \in {v} }) is F(v) with
\* v worked out once and then named: a string, once produced, is a value the
\* next operation reads, not an expression it computes again
Only(S) == CHOOSE r \in S : TRUE

JoinWith(list, sep) ==
  IF list = <<>> THEN <<>>
  ELSE IF Len(list) = 1 THEN list[1]
  ELSE list[1] \o sep \o JoinWith(Tail(list), sep)

\* Set.prototype.add on an insertion-ordered set kept as a sequence
SetAdd(set, v) ==
  IF \E i \in 1..Len(set) : set[i] = v THEN set ELSE Append(set, v)

Range(s) == {s[i] : i \in 1..Len(s)}
Count(v, s) == Cardinality({i \in 1..Len(s) : s[i] = v})
NoDup(list) == \A i, j \in 1..Len(list) : i # j => list[i] # list[j]
\* Whether the string holds a target-script character
ContainsZh(s) == \E i \in 1..Len(s) : IsZh(s[i])

(***************************************************************************)
(* Syntax trees and their source text (the parser boundary)                *)
(***************************************************************************)
StringLiteral(v) ==
  [kind |-> "StringLiteral", value |-> v, quasis |-> <<>>, operator |-> "",
   args |-> <<>>]
Identifier(n) ==
  [kind |-> "Identifier", value |-> n, quasis |-> <<>>, operator |-> "",
   args |-> <<>>]
TemplateLiteral(qs, es) ==
  [kind |-> "TemplateLiteral", value |-> <<>>, quasis |-> qs, operator |-> "",
   args |-> es]
BinaryExpression(op, l, r) ==
  [kind |-> "BinaryExpression", value |-> <<>>, quasis |-> <<>>, operator |-> op,
   args |-> <<l, r>>]

OpText(op) == IF op = "+" THEN <<Chr.space, Chr.plus, Chr.space>>
              ELSE <<Chr.space, Chr.minus, Chr.space>>

RECURSIVE Src(_)
RECURSIVE TemplateSrc(_, _, _)
\* The source text of quasis[i..] and expressions[i..] of a template literal
TemplateSrc(qs, es, i) ==
  IF i > Len(es) THEN qs[i]
  ELSE qs[i] \o <<Chr.dollar, Chr.lbrace>> \o Src(es[i]) \o <<Chr.rbrace>>
       \o TemplateSrc(qs, es, i + 1)

\* Whether the right operand is written in parentheses ('+' and '-' associate
\* to the left, so a right operand that is itself binary needs them).
RightParen(n) == n.args[2].kind = "BinaryExpression"

\* The source text the parser reads the node from.
Src(n) ==
  CASE n.kind = "StringLiteral" -> <<Chr.quote>> \o n.value \o <<Chr.quote>>
    [] n.kind = "Identifier" -> n.value
    [] n.kind = "TemplateLiteral" ->
         <<Chr.tick>> \o TemplateSrc(n.quasis, n.args, 1) \o <<Chr.tick>>
    [] n.kind = "BinaryExpression" ->
         Src(n.args[1]) \o OpText(n.operator)
         \o (IF RightParen(n)
             THEN <<Chr.lpar>> \o Src(n.args[2]) \o <<Chr.rpar>>
             ELSE Src(n.args[2]))

RECURSIVE Loc(_, _)
RECURSIVE LocTemplateArgs(_, _, _, _)
LocTemplateArgs(qs, es, i, at) ==
  IF i > Len(es) THEN <<>>
  ELSE LET s == at + Len(qs[i]) + 2
       IN  <<Loc(es[i], s)>>
           \o LocTemplateArgs(qs, es, i + 1, s + Len(Src(es[i])) + 1)

\* The node as the parser returns it for text in which it begins at offset
\* start: with node.start, node.end and its children located likewise. A
\* parenthesised node's range excludes its parentheses.
Loc(n, start) ==
  [kind |-> n.kind, value |-> n.value, quasis |-> n.quasis,
   operator |-> n.operator, start |-> start, end |-> start + Len(Src(n)),
   args |->
     CASE n.kind = "BinaryExpression" ->
            LET l == Loc(n.args[1], start)
                rs == l.end + 3 + (IF RightParen(n) THEN 1 ELSE 0)
            IN  <<l, Loc(n.args[2], rs)>>
       [] n.kind = "TemplateLiteral" ->
            LocTemplateArgs(n.quasis, n.args, 1, start + 1)
       [] OTHER -> <<>>]

\* A statement: an expression statement (prefix empty) or an assignment
\* 'x = <expr>' (prefix 'x = '), closed by ';'.
Stmt(prefix, e) == [prefix |-> prefix, expr |-> e]
StmtSrc(s) == s.prefix \o Src(s.expr) \o <<Chr.semi>>

RECURSIVE UnitSrc(_)
\* The text of a unit
UnitSrc(u) == IF u = <<>> THEN <<>> ELSE StmtSrc(Head(u)) \o UnitSrc(Tail(u))

RECURSIVE PreOrder(_)
RECURSIVE PreOrderAll(_)
PreOrderAll(ns) ==
  IF ns = <<>> THEN <<>> ELSE PreOrder(Head(ns)) \o PreOrderAll(Tail(ns))
\* The nodes in the order traverse enters them
PreOrder(n) == <<n>> \o PreOrderAll(n.args)

\* The parser reads the leading statements that are nothing but a string
\* literal as directives: statement i is one when it and every statement
\* before it is such a statement.  A directive holds no StringLiteral node.
IsDirective(u, i) ==
  \A j \in 1..i : u[j].prefix = <<>> /\ u[j].expr.kind = "StringLiteral"

RECURSIVE NodesFrom(_, _, _)
\* The located nodes of statements i.. of the unit, statement i at offset at
NodesFrom(u, i, at) ==
  IF i > Len(u) THEN <<>>
  ELSE (IF IsDirective(u, i) THEN <<>>
        ELSE PreOrder(Loc(u[i].expr, at + Len(u[i].prefix))))
       \o NodesFrom(u, i + 1, at + Len(StmtSrc(u[i])))

\* parser.parse + traverse: the located nodes of the unit in traversal order
UnitNodes(u, at) == NodesFrom(u, 1, at)

(***************************************************************************)
(* The AST extractor: pickZhStrByAst                                       *)
(***************************************************************************)
\* hasUsedSet: a node is claimed when a node of exactly its range was pushed
HasUsedSet(used, n) ==
  \E i \in 1..Len(used) : used[i][1] = n.start /\ used[i][2] = n.end

\* pushUsed
PushUsed(used, n) ==
  IF HasUsedSet(used, n) THEN used ELSE Append(used, <<n.start, n.end>>)

RECURSIVE PushUsedAll(_, _)
\* pushUsed called on each node of ns in turn
PushUsedAll(used, ns) ==
  IF ns = <<>> THEN used ELSE PushUsedAll(PushUsed(used, Head(ns)), Tail(ns))

RECURSIVE FlatBinaryExpression(_)
\* flatBinaryExpression(node, pushUsed): the leaves left to right (nodes) and
\* the '+' nodes it hands to pushUsed, in the order it does (pushed)
FlatBinaryExpression(n) ==
  IF n.kind = "BinaryExpression" /\ n.operator = "+"
  THEN LET l == FlatBinaryExpression(n.args[1])
           r == FlatBinaryExpression(n.args[2])
       IN  [nodes |-> l.nodes \o r.nodes,
            pushed |-> <<n>> \o l.pushed \o r.pushed]
  ELSE [nodes |-> <<n>>, pushed |-> <<>>]

\* v.quasis.map((v) => v.value.raw.trim()).join('{}')
TemplateText(n) ==
  JoinWith([i \in 1..Len(n.quasis) |-> Trim(n.quasis[i])], Placeholder)

\* What a leaf of a flattened chain contributes (main.ts:180-189)
LeafText(n) ==
  IF n.kind = "TemplateLiteral" THEN TemplateText(n)
  ELSE IF n.kind = "StringLiteral" THEN Trim(n.value)
  ELSE Placeholder

IsLiteral(n) == n.kind \in {"TemplateLiteral", "StringLiteral"}

\* The leaves the map callback hands to pushUsed
LiteralLeaves(ns) == SelectSeq(ns, IsLiteral)

\* The StringLiteral visitor
VisitStringLiteral(st, n) ==
  IF HasUsedSet(st.used, n) THEN st
  ELSE [st EXCEPT !.used = PushUsed(st.used, n),
                  !.set = SetAdd(st.set, Trim(n.value))]

\* The TemplateLiteral visitor
VisitTemplateLiteral(st, n) ==
  IF HasUsedSet(st.used, n) THEN st
  ELSE [st EXCEPT !.used = PushUsed(st.used, n),
                  !.set = SetAdd(st.set, TemplateText(n))]

\* The guard of main.ts:170: !node.start || !node.end
MissingRange(n) == n.start = 0 \/ n.end = 0

\* The BinaryExpression visitor on the unit's text code
VisitBinaryExpression(st, n, code) ==
  IF HasUsedSet(st.used, n) THEN st
  ELSE LET used1 == PushUsed(st.used, n)
       IN  IF MissingRange(n) THEN [st EXCEPT !.used = used1, !.threw = TRUE]
           ELSE IF n.operator # "+" THEN [st EXCEPT !.used = used1]
           ELSE LET h == HasZhStr(SubSeq(code, n.start + 1, n.end), st.li)
                    f == FlatBinaryExpression(n)
                    texts == [i \in 1..Len(f.nodes) |-> LeafText(f.nodes[i])]
                IN  IF ~h.r THEN [st EXCEPT !.used = used1, !.li = h.li]
                    ELSE [st EXCEPT
                            !.used = PushUsedAll(PushUsedAll(used1, f.pushed),
                                                 LiteralLeaves(f.nodes)),
                            !.li = h.li,
                            !.set = SetAdd(st.set, JoinWith(texts, <<>>))]

Visit(st, n, code) ==
  CASE n.kind = "StringLiteral" -> VisitStringLiteral(st, n)
    [] n.kind = "TemplateLiteral" -> VisitTemplateLiteral(st, n)
    [] n.kind = "BinaryExpression" -> VisitBinaryExpression(st, n, code)
    [] OTHER -> st

RECURSIVE Traverse(_, _, _)
\* traverse(program, visitors): the visitors run on the nodes in order until
\* one throws
Traverse(nodes, st, code) ==
  IF nodes = <<>> \/ st.threw THEN st
  ELSE Traverse(Tail(nodes), Visit(st, Head(nodes), code), code)

RECURSIVE FilterZh(_, _)
\* .filter((v) => hasZhStr(v)) : the elements kept and the regex's lastIndex
\* after the last test
FilterZh(list, li) ==
  IF list = <<>> THEN [kept |-> <<>>, li |-> li]
  ELSE LET h == HasZhStr(Head(list), li)
           rest == FilterZh(Tail(list), h.li)
       IN  [kept |-> (IF h.r THEN <<Head(list)>> ELSE <<>>) \o rest.kept,
            li |-> rest.li]

\* .map((v) => v.trim().replace(rmREg, '')) on one element
PostProcess(v) == RmReplace(Trim(v))

NonEmpty(v) == v # <<>>

\* pickZhStrByAst(code) called with zhReg.lastIndex = li.  cands is zhStrSet
\* at the end of the traversal, used the claimed ranges, list the value
\* returned (none when threw), li the regex's lastIndex afterwards.
PickZhStrByAst(u, li) ==
  LET code == UnitSrc(u)
      st == Traverse(UnitNodes(u, 0),
                     [used |-> <<>>, set |-> <<>>, li |-> li, threw |-> FALSE],
                     code)
      f == FilterZh(st.set, st.li)
  IN  IF st.threw
      THEN [list |-> <<>>, cands |-> st.set, used |-> st.used, li |-> st.li,
            threw |-> TRUE]
      ELSE [list |-> SelectSeq([i \in 1..Len(f.kept) |-> PostProcess(f.kept[i])],
                               NonEmpty),
            cands |-> st.set, used |-> st.used, li |-> f.li, threw |-> FALSE]

(***************************************************************************)
(* Per-file pipeline: getCodesFromFile and the loop body of collectDirZhStr*)
(***************************************************************************)
\* A source file: its raw text and the script units the normaliser (the SFC
\* splitter, the template compiler and esbuild) makes of it; ok tells whether
\* esbuild transforms the unit or fails on it.
SourceFile(text, us) == [text |-> text, units |-> us]

\* transformWithEsbuild: the transformed code, '' when esbuild fails
TransformWithEsbuild(fu) ==
  IF fu.ok THEN [u |-> fu.u, text |-> UnitSrc(fu.u)]
  ELSE [u |-> <<>>, text |-> <<>>]

RECURSIVE FilterCodes(_, _)
\* codes.filter((v) => hasZhStr(v))
FilterCodes(codes, li) ==
  IF codes = <<>> THEN [kept |-> <<>>, li |-> li]
  ELSE LET h == HasZhStr(Head(codes).text, li)
           rest == FilterCodes(Tail(codes), h.li)
       IN  [kept |-> (IF h.r THEN <<Head(codes)>> ELSE <<>>) \o rest.kept,
            li |-> rest.li]

\* getCodesFromFile(filePath, ext) on a file, called with zhReg.lastIndex = li:
\* a 'vue' file gives the units of its blocks, any other file one unit
GetCodesFromFile(file, ext, li) ==
  LET h == HasZhStr(file.text, li)
      n == IF ext = <<118, 117, 101>> THEN Len(file.units) ELSE 1
  IN  IF ~h.r THEN [codes |-> <<>>, li |-> h.li]
      ELSE LET codes == [i \in 1..n |-> TransformWithEsbuild(file.units[i])]
               f == FilterCodes(codes, h.li)
           IN  [codes |-> f.kept, li |-> f.li]

\* The state of the map after one more call returned (or threw) r
PickStep(acc, r) ==
  [results |-> Append(acc.results, r), li |-> r.li, threw |-> r.threw]

RECURSIVE PickFrom(_, _)
\* codes.map((v) => pickZhStrByAst(v)) from the state acc on: the results in
\* order; a throw ends it
PickFrom(codes, acc) ==
  IF codes = <<>> \/ acc.threw THEN acc
  ELSE PickFrom(Tail(codes),
                PickStep(acc, PickZhStrByAst(Head(codes).u, acc.li)))

PickAll(codes, li) ==
  PickFrom(codes, [results |-> <<>>, li |-> li, threw |-> FALSE])

RECURSIVE Flat1(_)
\* Array.prototype.flat(1) on a list of lists
Flat1(lists) == IF lists = <<>> THEN <<>> ELSE Head(lists) \o Flat1(Tail(lists))

RECURSIVE Dedup(_)
\* Array.from(new Set(list))
Dedup(list) ==
  IF list = <<>> THEN <<>>
  ELSE LET d == Dedup(SubSeq(list, 1, Len(list) - 1))
       IN  SetAdd(d, list[Len(list)])

\* main.ts:248-253 on one file: the units' results and zhStrList
FileStrings(file, ext, li) ==
  LET g == GetCodesFromFile(file, ext, li)
      p == PickAll(g.codes, g.li)
  IN  [codes |-> g.codes, results |-> p.results, threw |-> p.threw, li |-> p.li,
       zhStrList |-> IF p.threw THEN <<>>
                     ELSE Dedup(Flat1([i \in 1..Len(p.results) |->
                                         p.results[i].list]))]

(***************************************************************************)
(* The units the extractor is run on                                       *)
(***************************************************************************)
\* The most leaves (literals, identifiers) a unit holds
MaxLeaves == 3
\* The most extractor calls made on one unit
MaxCalls == 2

Zh1 == <<Chr.ni>>
Zh2 == <<Chr.space, Chr.ni, Chr.hao>>

Leaves ==
  { StringLiteral(Zh1), StringLiteral(Zh2), Identifier(<<Chr.a>>),
    Identifier(<<Chr.ni>>),
    TemplateLiteral(<<<<Chr.ni, Chr.hao>>, <<>>>>, <<Identifier(<<Chr.a>>)>>) }

Ops == {"+", "-"}

RECURSIVE Chains(_)
\* The chains of '+' with k leaves, of every shape
Chains(k) ==
  IF k = 1 THEN Leaves
  ELSE UNION { { BinaryExpression("+", l, r) :
                   l \in Chains(i), r \in Chains(k - i) } :
               i \in 1..(k - 1) }

\* The expressions of one statement: a leaf, a binary expression of two leaves
\* or a longer chain
Exprs ==
  Leaves
  \cup { BinaryExpression(op, l, r) : op \in Ops, l \in Leaves, r \in Leaves }
  \cup UNION { Chains(k) : k \in 3..MaxLeaves }

AssignPrefix == <<Chr.x, Chr.space, Chr.eq, Chr.space>>

Prefixes == { <<>>, AssignPrefix }

\* The units: one statement, or two statements each a leaf or, one of them, a
\* chain of two leaves; the first statement with or without 'x = '
Units ==
  { <<Stmt(p, e)>> : p \in Prefixes, e \in Exprs }
  \cup { <<Stmt(p, e), Stmt(AssignPrefix, f)>> :
           p \in Prefixes, e \in Leaves, f \in Leaves \cup Chains(2) }
  \cup { <<Stmt(p, e), Stmt(AssignPrefix, f)>> :
           p \in Prefixes, e \in Chains(2), f \in Leaves }

\* The strings other callers hand to hasZhStr between two extractions
CheckTexts == { <<>>, Zh1, <<Chr.a>> }

(***************************************************************************)
(* Specification of the extractor: calls of pickZhStrByAst on one unit,    *)
(* directly or through the per-file pipeline, with other containment       *)
(* checks in between.                                                      *)
(***************************************************************************)
Idle == <<>>

InitExtract ==
  /\ lastIndex = 0
  /\ unit \in Units
  /\ calls = <<>>
  /\ keyIn = Idle /\ keyOut = Idle
  /\ root = Idle /\ tree = Idle /\ seen = Idle /\ pathnames = Idle
  /\ yielded = Idle /\ current = Idle /\ textList = Idle /\ report = Idle
  /\ pc = "extract"

OtherVars == <<keyIn, keyOut, root, tree, seen, pathnames, yielded, current,
               textList, report, pc>>

\* What is kept of an extractor call: how it was made, zhStrSet at the end of
\* the traversal, the list returned, whether it threw
CallRecord(via, r) ==
  [via |-> via, list |-> r.list, cands |-> r.cands, threw |-> r.threw]

\* pickZhStrByAst(code) called directly
CallExtractor ==
  /\ pc = "extract"
  /\ Len(calls) < MaxCalls
  /\ LET r == PickZhStrByAst(unit, lastIndex)
     IN  /\ calls' = Append(calls, CallRecord("direct", r))
         /\ lastIndex' = r.li
  /\ UNCHANGED <<unit, OtherVars>>

\* The loop body of collectDirZhStr on a .js file whose text is the unit
ProcessUnitFile ==
  /\ pc = "extract"
  /\ Len(calls) < MaxCalls
  /\ LET file == SourceFile(UnitSrc(unit), <<[u |-> unit, ok |-> TRUE]>>)
         f == FileStrings(file, <<106, 115>>, lastIndex)
     IN  /\ f.results # <<>>
         /\ calls' = Append(calls, CallRecord("pipeline", f.results[1]))
         /\ lastIndex' = f.li
  /\ UNCHANGED <<unit, OtherVars>>

\* Any other hasZhStr call of the process
ContainmentCheck ==
  /\ pc = "extract"
  /\ \E s \in CheckTexts : lastIndex' = HasZhStr(s, lastIndex).li
  /\ lastIndex' # lastIndex
  /\ UNCHANGED <<unit, calls, OtherVars>>

NextExtract == CallExtractor \/ ProcessUnitFile \/ ContainmentCheck

Spec == InitExtract /\ [][NextExtract]_vars

(***************************************************************************)
(* The key generator: getStrHashCode and getKeyFromStr                     *)
(***************************************************************************)
\* A 32-bit integer as two 16-bit halves, so that no intermediate value of
\* the model leaves the range of the 32-bit integers it is computed with
Halves(h) == [hi |-> (h \div 65536) % 65536, lo |-> h % 65536]

\* ToInt32 of the value with these halves: the signed reading
Int32Of(w) ==
  IF w.hi >= 32768 THEN (w.hi - 65536) * 65536 + w.lo ELSE w.hi * 65536 + w.lo

\* w << 5
Shl5(w) ==
  [hi |-> (w.hi * 32 + (w.lo * 32) \div 65536) % 65536, lo |-> (w.lo * 32) % 65536]

\* v - w modulo 2^32
Sub32(v, w) ==
  [hi |-> (v.hi - w.hi - (IF v.lo < w.lo THEN 1 ELSE 0)) % 65536,
   lo |-> (v.lo - w.lo) % 65536]

\* w + c modulo 2^32, c a UTF-16 code unit
AddChar32(w, c) ==
  [hi |-> (w.hi + (w.lo + c) \div 65536) % 65536, lo |-> (w.lo + c) % 65536]

\* One round of the loop: hash = (hash << 5) - hash + char; hash |= 0
HashStepShift4(hash, char) ==
  Int32Of(AddChar32(Sub32([hi |-> (Halves(hash).hi * 16
                                    + (Halves(hash).lo * 16) \div 65536) % 65536,
                           lo |-> (Halves(hash).lo * 16) % 65536],
                          Halves(hash)), char))
HashStep(hash, char) ==
  Int32Of(AddChar32(Sub32(Shl5(Halves(hash)), Halves(hash)), char))

RECURSIVE HashFrom(_, _, _)
HashFrom(str, i, hash) ==
  IF i > Len(str) THEN hash ELSE HashFrom(str, i + 1, HashStep(hash, str[i]))

\* getStrHashCode(str)
GetStrHashCode(str) == IF Len(str) = 0 THEN 0 ELSE HashFrom(str, 1, 0)

\* new Int32Array([code]).buffer : the four bytes, least significant first
Int32Bytes(code) == [k \in 1..4 |-> (code \div (256 ^ (k - 1))) % 256]

\* The character of the base64url alphabet for a 6-bit digit
Base64UrlChar(d) ==
  IF d < 26 THEN 65 + d
  ELSE IF d < 52 THEN 97 + (d - 26)
  ELSE IF d < 62 THEN 48 + (d - 52)
  ELSE IF d = 62 THEN 45
  ELSE 95

\* Buffer.toString('base64url') of four bytes: three bytes make four digits,
\* the fourth byte two digits, without padding
Base64Url4(b) ==
  [k \in 1..6 |->
     Base64UrlChar(
       CASE k = 1 -> b[1] \div 4
         [] k = 2 -> (b[1] % 4) * 16 + b[2] \div 16
         [] k = 3 -> (b[2] % 16) * 4 + b[3] \div 64
         [] k = 4 -> b[3] % 64
         [] k = 5 -> b[4] \div 4
         [] k = 6 -> (b[4] % 4) * 16)]

\* .replaceAll('-', '_')
ReplaceDash(s) == [k \in 1..Len(s) |-> IF s[k] = 45 THEN 95 ELSE s[k]]

\* Number.isInteger(Number(c)) for a character of the alphabet: a digit
IsIntegerChar(c) == c >= 48 /\ c <= 57

\* getKeyFromStr(str)
GetKeyFromStr(str) ==
  LET a == ReplaceDash(Base64Url4(Int32Bytes(GetStrHashCode(str))))
  IN  IF IsIntegerChar(a[1]) THEN <<95>> \o a ELSE a

\* The longest string keyed
MaxKeyLen == 6
\* The most keys generated for one string
MaxKeyCalls == 2

KeyChars == { Chr.ni, Chr.cheng, Chr.a }

KeyStrings == UNION { [1..n -> KeyChars] : n \in 0..MaxKeyLen }

InitKey ==
  /\ keyIn \in KeyStrings
  /\ keyOut = <<>>
  /\ lastIndex = 0 /\ unit = Idle /\ calls = Idle
  /\ root = Idle /\ tree = Idle /\ seen = Idle /\ pathnames = Idle
  /\ yielded = Idle /\ current = Idle /\ textList = Idle /\ report = Idle
  /\ pc = "key"

\* getKeyFromStr(keyIn) is called once more
GenerateKey ==
  /\ pc = "key"
  /\ Len(keyOut) < MaxKeyCalls
  /\ keyOut' = Append(keyOut, GetKeyFromStr(keyIn))
  /\ UNCHANGED <<keyIn, lastIndex, unit, calls, root, tree, seen, pathnames,
                 yielded, current, textList, report, pc>>

NextKey == GenerateKey

SpecKey == InitKey /\ [][NextKey]_vars

\* The hash of the claim: hash = hash*31 + codeUnit modulo 2^32 over the code
\* units, in halves
RECURSIVE Poly31(_, _, _)
Poly31(str, i, w) ==
  IF i > Len(str) THEN w
  ELSE Poly31(str, i + 1,
              [hi |-> (w.hi * 31 + (w.lo * 31 + str[i]) \div 65536) % 65536,
               lo |-> (w.lo * 31 + str[i]) % 65536])

\* The six base64url characters of the bytes lo%256, lo/256, hi%256, hi/256:
\* the digits of the 24-bit number of the first three bytes, then of the last
\* byte followed by four zero bits; '-' written '_'
Encoding(w) ==
  LET n24 == (w.lo % 256) * 65536 + (w.lo \div 256) * 256 + (w.hi % 256)
      n12 == (w.hi \div 256) * 16
      digit == [k \in 1..6 |->
                  IF k <= 4 THEN (n24 \div (64 ^ (4 - k))) % 64
                  ELSE (n12 \div (64 ^ (6 - k))) % 64]
      alphabet == <<65, 66, 67, 68, 69, 70, 71, 72, 73, 74, 75, 76, 77, 78, 79,
                    80, 81, 82, 83, 84, 85, 86, 87, 88, 89, 90,
                    97, 98, 99, 100, 101, 102, 103, 104, 105, 106, 107, 108,
                    109, 110, 111, 112, 113, 114, 115, 116, 117, 118, 119, 120,
                    121, 122,
                    48, 49, 50, 51, 52, 53, 54, 55, 56, 57, 95, 95>>
  IN  [k \in 1..6 |-> alphabet[digit[k] + 1]]

KeyAlphabet == (65..90) \cup (97..122) \cup (48..57) \cup {95}

\* C6: every key generated for a string is the base64url encoding ('-' as
\* '_') of the little-endian bytes of its 32-bit hash hash*31 + codeUnit,
\* prefixed with '_' exactly when the encoding starts with a digit; so it has
\* 6 or 7 characters of [A-Za-z0-9_], does not start with a digit, and is the
\* same on every call.
C6_KeyOfString ==
  \A i \in 1..Len(keyOut) :
    LET e == Encoding(Poly31(keyIn, 1, [hi |-> 0, lo |-> 0]))
        k == keyOut[i]
    IN  /\ k = IF e[1] \in 48..57 THEN <<95>> \o e ELSE e
        /\ Len(k) \in {6, 7}
        /\ \A j \in 1..Len(k) : k[j] \in KeyAlphabet
        /\ k[1] \notin 48..57
        /\ k = keyOut[1]

\* A key was generated twice for a string whose hash wrapped around to a
\* negative number and whose encoding starts with a digit, and got the prefix.
C6_Witness ==
  /\ pc = "key"
  /\ Len(keyOut) = 2
  /\ GetStrHashCode(keyIn) < 0
  /\ Encoding(Poly31(keyIn, 1, [hi |-> 0, lo |-> 0]))[1] \in 48..57
  /\ Len(keyOut[2]) = 7

(***************************************************************************)
(* Paths and the file system                                               *)
(***************************************************************************)
\* fileExtList: "js", "ts", "jsx", "tsx", "vue"
FileExtList ==
  << <<106, 115>>,
     <<116, 115>>,
     <<106, 115, 120>>,
     <<116, 115, 120>>,
     <<118, 117, 101>> >>
\* preCodeExtList: "ts", "jsx", "tsx"
PreCodeExtList ==
  << <<116, 115>>,
     <<106, 115, 120>>,
     <<116, 115, 120>> >>
\* excludeSubFolderList: "node_modules", "dist", "build", "public", "test", "tests", "scripts", ".git", ".vscode", ".idea"
ExcludeSubFolderList ==
  { <<110, 111, 100, 101, 95, 109, 111, 100, 117, 108, 101, 115>>,
    <<100, 105, 115, 116>>,
    <<98, 117, 105, 108, 100>>,
    <<112, 117, 98, 108, 105, 99>>,
    <<116, 101, 115, 116>>,
    <<116, 101, 115, 116, 115>>,
    <<115, 99, 114, 105, 112, 116, 115>>,
    <<46, 103, 105, 116>>,
    <<46, 118, 115, 99, 111, 100, 101>>,
    <<46, 105, 100, 101, 97>> }
\* The names of the entries of the modelled trees: "r", "lib", "ln", "a.ts",
\* "a.vue", "ats", "b.ts", "test", "dist"
Name ==
  [ r |-> <<114>>, lib |-> <<108, 105, 98>>, ln |-> <<108, 110>>,
    ats |-> <<97, 46, 116, 115>>, avue |-> <<97, 46, 118, 117, 101>>,
    noext |-> <<97, 116, 115>>, bts |-> <<98, 46, 116, 115>>,
    test |-> <<116, 101, 115, 116>>, dist |-> <<100, 105, 115, 116>> ]
\* The lines of folder.txt the root is read from: "r", "r/", "./r", " r\"
FolderLines ==
  { <<114>>,
    <<114, 47>>,
    <<46, 47, 114>>,
    <<32, 114, 92>> }

RECURSIVE SplitFrom(_, _, _, _)
SplitFrom(p, i, cur, sep) ==
  IF i > Len(p) THEN <<cur>>
  ELSE IF p[i] = sep THEN <<cur>> \o SplitFrom(p, i + 1, <<>>, sep)
  ELSE SplitFrom(p, i + 1, Append(cur, p[i]), sep)

\* String.prototype.split(sep) for a one-character separator
Split(p, sep) == SplitFrom(p, 1, <<>>, sep)

IsSegment(seg) == seg # <<>> /\ seg # <<Chr.dot>>

\* The path's segments: what is left between its separators once empty and
\* '.' segments are dropped (the modelled paths hold no '..')
Segments(p) == SelectSeq(Split(p, Chr.slash), IsSegment)

\* path.join(dir, s) on a POSIX host: dir + '/' + s, normalised
PathJoin(dir, s) ==
  (IF dir # <<>> /\ dir[1] = Chr.slash THEN <<Chr.slash>> ELSE <<>>)
  \o Only({ JoinWith(segs, <<Chr.slash>>) :
               segs \in {Only({ Segments(p) : p \in {dir \o <<Chr.slash>> \o s} })} })

\* posixPath(str) (utils.ts)
ReplaceAllBackslash(str) ==
  IF Chr.backslash \in Range(str)
  THEN [i \in 1..Len(str) |-> IF str[i] = Chr.backslash THEN Chr.slash ELSE str[i]]
  ELSE str

PosixPath(str) == Only({ ReplaceAllBackslash(s) : s \in {str} })

\* path.basename(p)
Basename(p) ==
  LET segs == SelectSeq(Split(p, Chr.slash), NonEmpty)
  IN  IF segs = <<>> THEN <<>> ELSE segs[Len(segs)]

\* str.substring(n)
SubstringFrom(str, n) == SubSeq(str, n + 1, Len(str))

\* filePath.endsWith(v) && filePath.at(-v.length - 1) === '.'
HasExt(filePath, v) ==
  /\ Len(filePath) >= Len(v)
  /\ SubSeq(filePath, Len(filePath) - Len(v) + 1, Len(filePath)) = v
  /\ Len(filePath) > Len(v)
  /\ filePath[Len(filePath) - Len(v)] = Chr.dot

\* fileExtList.find(...): the first extension of the list the path has, <<>>
\* (undefined) when it has none
FindExt(filePath) ==
  LET hits == { i \in 1..Len(FileExtList) : HasExt(filePath, FileExtList[i]) }
  IN  IF hits = {} THEN <<>>
      ELSE FileExtList[CHOOSE i \in hits : \A j \in hits : i <= j]

\* The file system resolves a path to the node its segments name.
FsKey(p) ==
  Only({ JoinWith(segs, <<Chr.slash>>) :
           segs \in {Only({ Segments(q) : q \in {p} })} })
FsNode(t, p) == Only({ CHOOSE n \in t : n.path = key : key \in {FsKey(p)} })

\* fs.lstat(pathname): the kind of the entry itself, a link not followed
Lstat(t, p) == FsNode(t, p).kind

RECURSIVE Reverse(_)
\* Array.prototype.reverse
Reverse(list) ==
  IF list = <<>> THEN <<>> ELSE Append(Reverse(Tail(list)), Head(list))

RECURSIVE JoinEach(_, _)
\* names.map((s) => posixPath(path.join(dir, s)))
JoinEach(dir, names) ==
  IF names = <<>> THEN <<>>
  ELSE <<PosixPath(PathJoin(dir, Head(names)))>> \o JoinEach(dir, Tail(names))

\* (await fs.readdir(dir)).map((s) => posixPath(path.join(dir, s))).reverse()
ReaddirJoined(t, dir) ==
  Only({ Reverse(joined) :
           joined \in {Only({ JoinEach(dir, names) :
                                names \in {FsNode(t, dir).entries} })} })

\* The filter collectDirZhStr hands to traverseDirectory (main.ts:240-243)
DirFilterAll(p) == TRUE
DirFilter(p) == Basename(p) \notin ExcludeSubFolderList

\* Object.fromEntries on a list of [key, value] pairs: a later pair of the
\* same key replaces the earlier one
RECURSIVE FromEntries(_)
FromEntries(pairs) ==
  IF pairs = <<>> THEN <<>>
  ELSE LET last == pairs[Len(pairs)]
       IN  (last[1] :> last[2]) @@ FromEntries(SubSeq(pairs, 1, Len(pairs) - 1))

\* Object.fromEntries(zhStrList.map((v) => [getKeyFromStr(v), v]))
DataOf(zhStrList) ==
  FromEntries([i \in 1..Len(zhStrList) |->
                 <<GetKeyFromStr(zhStrList[i]), zhStrList[i]>>])

\* Object.values
Values(obj) == { obj[k] : k \in DOMAIN obj }

(***************************************************************************)
(* The trees walked                                                        *)
(***************************************************************************)
\* The deepest nesting of directories under the root
MaxDepth == 2

NonZhUnit == <<Stmt(AssignPrefix, StringLiteral(<<Chr.a>>))>>
ConcatUnit ==
  <<Stmt(AssignPrefix,
         BinaryExpression("+", StringLiteral(<<Chr.ni, Chr.hao>>),
                          StringLiteral(<<Chr.ni>>)))>>
OneCharUnit == <<Stmt(AssignPrefix, StringLiteral(Zh1))>>
TwoCandidatesUnit ==
  <<Stmt(AssignPrefix, StringLiteral(Zh2)),
    Stmt(AssignPrefix,
         BinaryExpression("+", StringLiteral(Zh2), Identifier(<<Chr.a>>)))>>
LeadingChainUnit ==
  <<Stmt(<<>>, BinaryExpression("+", StringLiteral(Zh1), Identifier(<<Chr.a>>)))>>
TemplateUnit ==
  <<Stmt(AssignPrefix,
         TemplateLiteral(<<<<Chr.ni, Chr.hao>>, <<>>>>, <<Identifier(<<Chr.a>>)>>))>>

\* A file whose units esbuild transforms, its text that of its units
FileOf(us) ==
  SourceFile(Flat1([i \in 1..Len(us) |-> UnitSrc(us[i])]),
             [i \in 1..Len(us) |-> [u |-> us[i], ok |-> TRUE]])

\* The files a directory may hold as its first entry: name and content
FileChoices ==
  << [name |-> Name.ats, file |-> FileOf(<<NonZhUnit>>)],
     [name |-> Name.ats, file |-> FileOf(<<ConcatUnit>>)],
     [name |-> Name.ats, file |-> FileOf(<<OneCharUnit>>)],
     [name |-> Name.ats, file |-> FileOf(<<TwoCandidatesUnit>>)],
     [name |-> Name.ats, file |-> FileOf(<<LeadingChainUnit>>)],
     [name |-> Name.avue, file |-> FileOf(<<ConcatUnit, TemplateUnit>>)],
     [name |-> Name.noext, file |-> FileOf(<<ConcatUnit>>)],
     [name |-> Name.ats,
      file |-> SourceFile(UnitSrc(ConcatUnit),
                          <<[u |-> ConcatUnit, ok |-> FALSE]>>)] >>

\* One directory level: fa the file choice (0: none), fb whether it holds
\* b.ts, ex what it holds under an excluded name (0: nothing, 1: a directory
\* 'test' with a.ts inside, 2: a regular file 'dist', 3: a directory 'dist'
\* with a.ts inside)
Level(fa, fb, ex) == [fa |-> fa, fb |-> fb, ex |-> ex]

RECURSIVE DirPath(_)
\* The directory of level d: r, r/lib, r/lib/lib, ...
DirPath(d) ==
  IF d = 1 THEN Name.r ELSE DirPath(d - 1) \o <<Chr.slash>> \o Name.lib

FsEntry(path, kind, entries, file) ==
  [path |-> path, kind |-> kind, entries |-> entries, file |-> file]

ExName(l) == IF l.ex = 1 THEN Name.test ELSE Name.dist

\* The entries of the directory of level d, in the order readdir lists them
LevelEntries(levels, d) ==
  (IF levels[d].fa = 0 THEN <<>> ELSE <<FileChoices[levels[d].fa].name>>)
  \o (IF levels[d].fb THEN <<Name.bts>> ELSE <<>>)
  \o (IF levels[d].ex = 0 THEN <<>> ELSE <<ExName(levels[d])>>)
  \o (IF d < Len(levels) THEN <<Name.lib>> ELSE <<>>)
  \o (IF d = 1 THEN <<Name.ln>> ELSE <<>>)

Under(dir, name) == dir \o <<Chr.slash>> \o name

\* The nodes of level d
LevelNodes(levels, d) ==
  LET dir == DirPath(d)
      l == levels[d]
      zh == FileOf(<<ConcatUnit>>)
  IN  {FsEntry(dir, "dir", LevelEntries(levels, d), Idle)}
      \cup (IF l.fa = 0 THEN {}
            ELSE {FsEntry(Under(dir, FileChoices[l.fa].name), "file", <<>>,
                          FileChoices[l.fa].file)})
      \cup (IF l.fb THEN {FsEntry(Under(dir, Name.bts), "file", <<>>, zh)} ELSE {})
      \cup (IF l.ex \in {1, 3}
            THEN {FsEntry(Under(dir, ExName(l)), "dir", <<Name.ats>>, Idle),
                  FsEntry(Under(Under(dir, ExName(l)), Name.ats), "file", <<>>, zh)}
            ELSE IF l.ex = 2
            THEN {FsEntry(Under(dir, Name.dist), "file", <<>>, zh)}
            ELSE {})
      \cup (IF d = 1 THEN {FsEntry(Under(dir, Name.ln), "link", <<>>, Idle)} ELSE {})

\* The tree of the levels: the root r, a chain of directories lib below it
TreeOf(levels) == UNION { LevelNodes(levels, d) : d \in 1..Len(levels) }

\* The root as read from a line of folder.txt (main.ts:277-282)
RootOf(line) == PosixPath(Trim(line))

(***************************************************************************)
(* traverseDirectory and collectDirZhStr, step by step                     *)
(***************************************************************************)
ExtractorVars == <<unit, calls, keyIn, keyOut>>

\* traverseDirectory, lines 15-17: the root's entries
WalkStart ==
  /\ pc = "start"
  /\ pathnames' = ReaddirJoined(tree, root)
  /\ pc' = "walk"
  /\ UNCHANGED <<lastIndex, root, tree, seen, yielded, current, textList, report,
                 ExtractorVars>>

\* traverseDirectory, lines 18-29: one round of the loop.  A file is yielded
\* to the consumer; a directory the filter accepts has its entries pushed.
WalkPop ==
  /\ pc = "walk"
  /\ pathnames # <<>>
  /\ LET pathname == pathnames[Len(pathnames)]
         rest == SubSeq(pathnames, 1, Len(pathnames) - 1)
         state == Lstat(tree, pathname)
     IN  IF state = "file"
         THEN /\ pathnames' = rest
              /\ yielded' = Append(yielded, pathname)
              /\ current' = pathname
              /\ pc' = "body"
         ELSE IF state = "dir" /\ DirFilter(pathname)
         THEN /\ pathnames' = rest \o ReaddirJoined(tree, pathname)
              /\ UNCHANGED <<yielded, current, pc>>
         ELSE /\ pathnames' = rest
              /\ UNCHANGED <<yielded, current, pc>>
  /\ UNCHANGED <<lastIndex, root, tree, seen, textList, report, ExtractorVars>>

\* traverseDirectory: the stack is empty, the generator returns
WalkEnd ==
  /\ pc = "walk"
  /\ pathnames = <<>>
  /\ pc' = "finish"
  /\ UNCHANGED <<lastIndex, root, tree, seen, pathnames, yielded, current,
                 textList, report, ExtractorVars>>

\* A consumer that only takes the yielded file and asks for the next
Consume ==
  /\ pc = "body"
  /\ current' = Idle
  /\ pc' = "walk"
  /\ UNCHANGED <<lastIndex, root, tree, seen, pathnames, yielded, textList,
                 report, ExtractorVars>>

\* collectDirZhStr's loop body (main.ts:244-257) on the yielded file
LoopBody ==
  /\ pc = "body"
  /\ LET filePath == current
         ext == FindExt(filePath)
         f == FileStrings(FsNode(tree, filePath).file, ext, lastIndex)
     IN  IF ext = <<>>
         THEN /\ seen' = Append(seen, [path |-> filePath, ext |-> ext,
                                       strings |-> <<>>])
              /\ pc' = "walk"
              /\ UNCHANGED <<lastIndex, textList>>
         ELSE /\ lastIndex' = f.li
              /\ seen' = Append(seen, [path |-> filePath, ext |-> ext,
                                       strings |-> f.zhStrList])
              /\ pc' = IF f.threw THEN "aborted" ELSE "walk"
              /\ textList' =
                   IF f.threw \/ f.codes = <<>> \/ f.zhStrList = <<>> THEN textList
                   ELSE Append(textList,
                               [name |-> SubstringFrom(filePath, Len(root) + 1),
                                data |-> DataOf(f.zhStrList)])
  /\ current' = Idle
  /\ UNCHANGED <<root, tree, pathnames, yielded, report, ExtractorVars>>

\* collectDirZhStr after the loop (main.ts:260-274): the catalog written and
\* the two counts logged
Finish ==
  /\ pc = "finish"
  /\ report' =
       [catalog |-> FromEntries([i \in 1..Len(textList) |->
                                   <<textList[i].name, textList[i].data>>]),
        fileCount |-> Len(textList),
        wordCount |-> Cardinality(UNION { Values(textList[i].data) :
                                          i \in 1..Len(textList) })]
  /\ pc' = "done"
  /\ UNCHANGED <<lastIndex, root, tree, seen, pathnames, yielded, current,
                 textList, ExtractorVars>>

Roots == { RootOf(line) : line \in FolderLines }

\* The trees the walker alone is run on
WalkLevels == { Level(fa, FALSE, ex) : fa \in {0, 2}, ex \in 0..3 }
WalkTrees ==
  { TreeOf(levels) : levels \in UNION { [1..n -> WalkLevels] : n \in 1..MaxDepth } }

InitWalk ==
  /\ root \in Roots
  /\ tree \in WalkTrees
  /\ pathnames = <<>> /\ yielded = <<>> /\ current = Idle
  /\ seen = <<>> /\ textList = <<>> /\ report = Idle
  /\ lastIndex = 0
  /\ unit = Idle /\ calls = Idle /\ keyIn = Idle /\ keyOut = Idle
  /\ pc = "start"

NextWalk == WalkStart \/ WalkPop \/ WalkEnd \/ Consume

\* The consumer's 'for await' takes every step in turn: no step waits forever.
SpecWalk == InitWalk /\ [][NextWalk]_vars /\ WF_vars(NextWalk)

\* The trees collectDirZhStr is run on
DirLevels(d) ==
  { Level(fa, fb, ex) :
      fa \in 0..Len(FileChoices), fb \in (IF d = 1 THEN BOOLEAN ELSE {FALSE}),
      ex \in 0..1 }
DirTrees ==
  { TreeOf(levels) :
      levels \in UNION { { l \in [1..n -> DirLevels(1)] :
                             \A d \in 2..n : l[d] \in DirLevels(d) } :
                         n \in 1..MaxDepth } }

InitDir ==
  /\ root \in Roots
  /\ tree \in DirTrees
  /\ pathnames = <<>> /\ yielded = <<>> /\ current = Idle
  /\ seen = <<>> /\ textList = <<>> /\ report = Idle
  /\ lastIndex = 0
  /\ unit = Idle /\ calls = Idle /\ keyIn = Idle /\ keyOut = Idle
  /\ pc = "start"

NextDir == WalkStart \/ WalkPop \/ WalkEnd \/ LoopBody \/ Finish

SpecDir == InitDir /\ [][NextDir]_vars

(***************************************************************************)
(* Claims about the walker and the catalog                                 *)
(***************************************************************************)
\* The regular files under the root none of whose ancestor directories
\* below the root has an excluded name
ExpectedFiles ==
  { n.path : n \in
      { n \in tree :
          /\ n.kind = "file"
          /\ LET segs == Segments(n.path)
                 k == Len(Segments(root))
             IN  /\ Len(segs) > k
                 /\ SubSeq(segs, 1, k) = Segments(root)
                 /\ \A i \in (k + 1)..(Len(segs) - 1) :
                      segs[i] \notin ExcludeSubFolderList } }

YieldedFiles == { FsKey(yielded[i]) : i \in 1..Len(yielded) }

\* C8: the walk yields only regular files outside excluded directories, none
\* twice, and it ends having yielded every one of them.
C8_WalkExact ==
  /\ [](YieldedFiles \subseteq ExpectedFiles /\ NoDup(yielded))
  /\ <>[](pc = "finish" /\ pathnames = <<>> /\ YieldedFiles = ExpectedFiles)

\* The walk of a tree with a file inside an excluded directory, a regular file
\* named like one and files on two levels has ended.
C8_Witness ==
  /\ pc = "finish"
  /\ seen = <<>>
  /\ Len(yielded) >= 3
  /\ \E n \in tree : n.kind = "file" /\ n.path \notin ExpectedFiles
  /\ \E i \in 1..Len(yielded) : Basename(yielded[i]) = Name.dist

\* The path of a file relative to the root, '/' between its segments
RelPath(p) ==
  JoinWith(SubSeq(Segments(p), Len(Segments(root)) + 1, Len(Segments(p))),
           <<Chr.slash>>)

HasStrings(e) == e.strings # <<>>

\* C9: the name of every catalog entry is the path of its file relative to
\* the root.
C9_RecordPath ==
  pc \in {"walk", "body", "finish", "done", "aborted"} =>
    LET added == SelectSeq(seen, HasStrings)
    IN  \A i \in 1..Len(textList) :
          i <= Len(added) => textList[i].name = RelPath(added[i].path)

\* C7: once collectDirZhStr is done, the catalog has an entry for a file
\* exactly when the walker yielded it, it has a recognized extension and its
\* units gave at least one string; the file count is the number of entries
\* and the word count the number of distinct strings of the entries.
C7_CatalogContent ==
  pc = "done" =>
    /\ \A i \in 1..Len(seen) :
         (RelPath(seen[i].path) \in DOMAIN report.catalog)
         <=> (seen[i].ext # <<>> /\ seen[i].strings # <<>>)
    /\ DOMAIN report.catalog \subseteq { RelPath(yielded[i]) : i \in 1..Len(yielded) }
    /\ report.fileCount = Cardinality(DOMAIN report.catalog)
    /\ report.wordCount =
         Cardinality(UNION { Values(report.catalog[k]) : k \in DOMAIN report.catalog })

(***************************************************************************)
(* Claims about the extractor                                              *)
(***************************************************************************)
Returned == { i \in 1..Len(calls) : ~calls[i].threw }

\* C1: every list the extractor returns is duplicate-free and each of its
\* elements is non-empty and contains a target-script character.
C1_DuplicateFree ==
  \A i \in Returned :
    /\ NoDup(calls[i].list)
    /\ \A k \in 1..Len(calls[i].list) :
         calls[i].list[k] # <<>> /\ ContainsZh(calls[i].list[k])

\* C2: two calls of the extractor on the same text return the same list in
\* the same order, whatever hasZhStr calls ran before or between them.
C2_Idempotent ==
  \A i, j \in Returned : calls[i].list = calls[j].list

\* The string literals with a target-script character in their trimmed value
\* that are two statements of the unit (so outside any '+' chain), neither a
\* directive
TwiceLiterals(u) ==
  { u[i].expr.value : i \in
      { i \in 1..Len(u) :
          /\ u[i].expr.kind = "StringLiteral"
          /\ ~IsDirective(u, i)
          /\ ContainsZh(Trim(u[i].expr.value))
          /\ \E j \in 1..Len(u) :
               j # i /\ u[j].expr = u[i].expr /\ ~IsDirective(u, j) } }

\* C3: a string literal that appears twice verbatim in a unit is exactly once
\* in the result of every extraction the per-file pipeline makes of the unit.
C3_ExactlyOnce ==
  \A i \in Returned :
    calls[i].via = "pipeline" =>
      \A v \in TwiceLiterals(unit) : Count(Trim(v), calls[i].list) = 1

RECURSIVE IsPlusChain(_)
\* A '+' expression all of whose nested binary expressions are '+' too
IsPlusChain(e) ==
  /\ e.kind = "BinaryExpression"
  /\ e.operator = "+"
  /\ \A k \in 1..2 :
       e.args[k].kind = "BinaryExpression" => IsPlusChain(e.args[k])

RECURSIVE ChainText(_)
\* The leaf contributions of a chain joined left to right: a string literal
\* its trimmed value, a template literal its segments joined by '{}', any
\* other leaf '{}'
ChainText(e) ==
  CASE e.kind = "BinaryExpression" -> ChainText(e.args[1]) \o ChainText(e.args[2])
    [] e.kind = "StringLiteral" -> Trim(e.value)
    [] e.kind = "TemplateLiteral" ->
         JoinWith([i \in 1..Len(e.quasis) |-> Trim(e.quasis[i])], Placeholder)
    [] OTHER -> Placeholder

\* C4: for a unit that is one chain of '+' whose text contains a
\* target-script character, the extractor records exactly one candidate, the
\* chain's leaf contributions joined, and none for a nested node or a leaf.
C4_OneCandidatePerChain ==
  \A i \in 1..Len(calls) :
    (/\ Len(unit) = 1
     /\ IsPlusChain(unit[1].expr)
     /\ ContainsZh(Src(unit[1].expr)))
    => calls[i].cands = <<ChainText(unit[1].expr)>>

DropLeadingPh(s) == IF StartsWithPh(s) THEN SubSeq(s, 3, Len(s)) ELSE s
DropTrailingPh(s) == IF EndsWithPh(s) THEN SubSeq(s, 1, Len(s) - 2) ELSE s
\* The candidate trimmed, without one leading and one trailing '{}'
StripBoth(c) == DropTrailingPh(DropLeadingPh(Trim(c)))

\* C5: every returned value is a candidate containing a target-script
\* character, trimmed, with one leading '{}' removed when it starts with one
\* and one trailing '{}' removed when it ends with one.
C5_StripBothEnds ==
  \A i \in Returned :
    \A k \in 1..Len(calls[i].list) :
      \E c \in Range(calls[i].cands) :
        ContainsZh(c) /\ calls[i].list[k] = StripBoth(c)

\* C10: the extractor never throws on a unit the parser accepts.
C10_NeverThrows ==
  \A i \in 1..Len(calls) : ~calls[i].threw

====
